---- MODULE Spec2Model ----
(***************************************************************************)
(* next-safe-route: the RouteHandlerBuilder and the request pipeline of    *)
(* the handlers it compiles.                                               *)
(*                                                                         *)
(* Builders are objects on a heap: a builder holds a reference to its      *)
(* config object and to its middlewares array, so that sharing between a   *)
(* builder and the builders derived from it is part of the state.  A       *)
(* compiled handler is a closure over `this` (a builder reference), not    *)
(* over a copy of the builder.  An invocation of a compiled handler        *)
(* advances from one `await` to the next.                                  *)
(***************************************************************************)
EXTENDS Integers, Sequences, FiniteSets, TLC

VARIABLES
    builders,   \* heap of RouteHandlerBuilder objects, indexed by reference
    configs,    \* heap of config objects {paramsSchema, querySchema, bodySchema}
    arrays,     \* heap of middlewares arrays
    handlers,   \* the compiled handlers (closures) created so far
    calls,      \* number of builder API calls made so far
    last,       \* the last chained call: its receiver, what the receiver held
                \* before it, its argument, the builder it returned, and whether
                \* a handler had been compiled from the receiver by then
    chain,      \* for each builder, the chained calls that led to it from the
                \* builder createSafeRoute returned
    inv,        \* the invocation of a compiled handler that is running
    other       \* a second invocation, suspended at an await

vars == <<builders, configs, arrays, handlers, calls, last, chain, inv, other>>

\* Bound on the number of builder API calls (params/query/body/use/handler).
MaxCalls == 3

------------------------------------------------------------------------------
(* Values *)

Undefined == "undefined"

\* Schemas: a strict one and a permissive one.
Schemas == {"strict", "lax"}

\* The schemas the program registers for each slot.
ParamsSchemas == {"strict"}

QuerySchemas == {"strict"}

BodySchemas == {"strict", "lax"}

SlotNames == {"params", "query", "body"}

\* Middleware functions the caller may register.
Middlewares == {"mwUser", "mwPerm", "mwFail"}

\* Business handler functions the caller may compile.
HandlerFns == {"fnEcho", "fnThrowCustom"}

\* Keys of the middleware context; a key no step has set is Undefined.
ContextKeys == {"user", "permissions"}

EmptyContext == [k \in ContextKeys |-> Undefined]

\* A raw (unvalidated) slot value.
Raw(v) == [raw |-> v, by |-> "raw"]

\* The literal {}.
EmptyObject == Raw("empty")

\* The requests the host framework may deliver: method, the params of the
\* invocation context ("absent": no context), the query string and the body
\* text ("none": a GET carries no body, "malformed": not JSON).
Requests ==
    [method : {"GET"}, params : {"good"}, query : {"good"}, body : {"none"}]
    \cup
    [method : {"GET"}, params : {"bad"}, query : {"bad"}, body : {"none"}]
    \cup
    [method : {"GET"}, params : {"absent"}, query : {"good"}, body : {"none"}]
    \cup
    [method : {"POST"}, params : {"good"}, query : {"good"},
     body : {"good", "malformed"}]
    \cup
    [method : {"POST"}, params : {"bad"}, query : {"bad"},
     body : {"bad", "malformed"}]

NoArgs == [params |-> Raw("none"), query |-> Raw("none"), body |-> Raw("none"),
           data |-> EmptyContext, called |-> FALSE]

NoError == [thrown |-> FALSE, isError |-> FALSE, name |-> "", json |-> FALSE,
            message |-> "", errors |-> "none"]

\* new Error(message) and its subclasses.
ErrorOf(name, message) ==
    [thrown |-> TRUE, isError |-> TRUE, name |-> name, json |-> FALSE,
     message |-> message, errors |-> "none"]

\* new Error(JSON.stringify({ message, errors })).
JsonError(message, errors) ==
    [thrown |-> TRUE, isError |-> TRUE, name |-> "Error", json |-> TRUE,
     message |-> message, errors |-> errors]

\* throw of a value that is not an Error.
NonError(value) ==
    [thrown |-> TRUE, isError |-> FALSE, name |-> "", json |-> FALSE,
     message |-> value, errors |-> "none"]

NoResponse == [status |-> 0, json |-> FALSE, message |-> "", errors |-> "none",
               details |-> "", echo |-> NoArgs]

\* new Response(body, { status }).
Response(status, json, message, errors, details, echo) ==
    [status |-> status, json |-> json, message |-> message, errors |-> errors,
     details |-> details, echo |-> echo]

------------------------------------------------------------------------------
(* The validation adapter *)

\* The inputs each schema accepts.
Accepts(schema) ==
    IF schema = "strict" THEN {"good"} ELSE {"good", "bad", "empty"}

\* validate(schema, input): the parsed data on success, the issues on failure.
Validate(adapter, schema, input) ==
    IF input.raw \in Accepts(schema)
    THEN [success |-> TRUE, data |-> [raw |-> input.raw, by |-> schema],
          issues |-> "none"]
    ELSE [success |-> FALSE, data |-> input, issues |-> "issues"]

------------------------------------------------------------------------------
(* The builder *)

\* The heap as one value.
Heap == [builders |-> builders, configs |-> configs, arrays |-> arrays]

\* An object literal for a config: a new object on the heap.
NewConfig(H, c) ==
    [heap |-> [H EXCEPT !.configs = Append(@, c)], ref |-> Len(H.configs) + 1]

\* An array literal: a new array on the heap.
NewArray(H, a) ==
    [heap |-> [H EXCEPT !.arrays = Append(@, a)], ref |-> Len(H.arrays) + 1]

\* new RouteHandlerBuilder({ config, middlewares, handleServerError,
\* validationAdapter }): an argument of 0 (config, middlewares) or Undefined
\* (validationAdapter) takes the parameter's default.
Constructor(H, config, middlewares, handleServerError, validationAdapter) ==
    LET C == IF config = 0
             THEN NewConfig(H, [paramsSchema |-> Undefined,
                                querySchema |-> Undefined,
                                bodySchema |-> Undefined])
             ELSE [heap |-> H, ref |-> config]
        A == IF middlewares = 0
             THEN NewArray(C.heap, << >>)
             ELSE [heap |-> C.heap, ref |-> middlewares]
        this == [config |-> C.ref,
                 middlewares |-> A.ref,
                 handleServerError |-> handleServerError,
                 validationAdapter |-> IF validationAdapter = Undefined
                                       THEN "zod" ELSE validationAdapter]
    IN  [heap |-> [A.heap EXCEPT !.builders = Append(@, this)],
         ret |-> Len(A.heap.builders) + 1]

\* createSafeRoute(params): of the options object it is given, only
\* handleServerError reaches the constructor.
createSafeRoute(H, options) ==
    Constructor(H, 0, 0, options.handleServerError, Undefined)

\* An in-place variant of params: writes the receiver's config, returns this.
paramsInPlace(H, b, schema) ==
    [heap |-> [H EXCEPT !.configs[H.builders[b].config].paramsSchema = schema],
     ret |-> b]

\* params(schema) on builder b.
params(H, b, schema) ==
    LET this == H.builders[b]
        C == NewConfig(H, [H.configs[this.config] EXCEPT !.paramsSchema = schema])
    IN  Constructor(C.heap, C.ref, this.middlewares, this.handleServerError,
                    this.validationAdapter)

\* A variant of query whose new config holds the query schema only.
queryWithoutSpread(H, b, schema) ==
    LET this == H.builders[b]
        C == NewConfig(H, [paramsSchema |-> Undefined, querySchema |-> schema,
                           bodySchema |-> Undefined])
    IN  Constructor(C.heap, C.ref, this.middlewares, this.handleServerError,
                    this.validationAdapter)

\* query(schema) on builder b.
query(H, b, schema) ==
    LET this == H.builders[b]
        C == NewConfig(H, [H.configs[this.config] EXCEPT !.querySchema = schema])
    IN  Constructor(C.heap, C.ref, this.middlewares, this.handleServerError,
                    this.validationAdapter)

\* A variant of body that keeps a body schema the receiver already holds.
bodyKeepingFirst(H, b, schema) ==
    LET this == H.builders[b]
        C == NewConfig(H, [H.configs[this.config] EXCEPT
                             !.bodySchema = IF @ = Undefined THEN schema ELSE @])
    IN  Constructor(C.heap, C.ref, this.middlewares, this.handleServerError,
                    this.validationAdapter)

\* body(schema) on builder b.
body(H, b, schema) ==
    LET this == H.builders[b]
        C == NewConfig(H, [H.configs[this.config] EXCEPT !.bodySchema = schema])
    IN  Constructor(C.heap, C.ref, this.middlewares, this.handleServerError,
                    this.validationAdapter)

\* A variant of use that pushes onto the receiver's array and shares it.
usePush(H, b, middleware) ==
    LET this == H.builders[b]
    IN  Constructor([H EXCEPT !.arrays[this.middlewares] = Append(@, middleware)],
                    this.config, this.middlewares, this.handleServerError,
                    this.validationAdapter)

\* A variant of use that does not pass handleServerError on.
useWithoutErrorHandler(H, b, middleware) ==
    LET this == H.builders[b]
        A == NewArray(H, Append(H.arrays[this.middlewares], middleware))
    IN  Constructor(A.heap, this.config, A.ref, Undefined,
                    this.validationAdapter)

\* A variant of use whose new builder starts from an empty config.
useWithoutConfig(H, b, middleware) ==
    LET this == H.builders[b]
        A == NewArray(H, Append(H.arrays[this.middlewares], middleware))
    IN  Constructor(A.heap, 0, A.ref, this.handleServerError,
                    this.validationAdapter)

\* use(middleware) on builder b.
use(H, b, middleware) ==
    LET this == H.builders[b]
        A == NewArray(H, Append(H.arrays[this.middlewares], middleware))
    IN  Constructor(A.heap, this.config, A.ref, this.handleServerError,
                    this.validationAdapter)

\* What builder b holds, references followed.
ViewIn(H, b) ==
    LET this == H.builders[b]
    IN  [paramsSchema |-> H.configs[this.config].paramsSchema,
         querySchema |-> H.configs[this.config].querySchema,
         bodySchema |-> H.configs[this.config].bodySchema,
         middlewares |-> H.arrays[this.middlewares],
         handleServerError |-> this.handleServerError,
         validationAdapter |-> this.validationAdapter]

View(b) == ViewIn(Heap, b)

\* handler(fn) on builder b: the closure over this and fn (compiled: what
\* this held when the closure was made).
handler(H, b, fn) ==
    [this |-> b, handler |-> fn, compiled |-> ViewIn(H, b)]

------------------------------------------------------------------------------
(* The functions the caller supplies *)

\* The handleServerError of the tests: CustomError is reported by name, any
\* other error as "Something went wrong".
HandleServerError(fn, error) ==
    IF error.isError /\ error.name = "CustomError"
    THEN Response(400, TRUE, error.name, "none", error.message, NoArgs)
    ELSE Response(400, TRUE, "Something went wrong", "none", "", NoArgs)

\* middleware(request): the fragment a step returns, or what it throws.
MiddlewareResult(middleware, request) ==
    CASE middleware = "mwUser" ->
           [error |-> NoError,
            fragment |-> [k \in ContextKeys |->
                            IF k = "user" THEN "user-123" ELSE Undefined]]
      [] middleware = "mwPerm" ->
           [error |-> NoError,
            fragment |-> [k \in ContextKeys |->
                            IF k = "user" THEN "user-456" ELSE "read-write"]]
      [] OTHER ->
           \* mwFail: throw 'Unauthorized' (a string, not an Error)
           [error |-> NonError("Unauthorized"), fragment |-> EmptyContext]

\* handler(request, context): the response it returns, or what it throws.
HandlerResult(fn, request, context) ==
    CASE fn = "fnEcho" ->
           [error |-> NoError,
            response |-> Response(200, TRUE, "ok", "none", "", context)]
      [] OTHER ->
           \* fnThrowCustom: throw new CustomError('Test error')
           [error |-> ErrorOf("CustomError", "Test error"), response |-> NoResponse]

------------------------------------------------------------------------------
(* The compiled handler *)

\* No invocation yet.
Idle ==
    [pc |-> "idle", h |-> 0,
     request |-> [method |-> "GET", params |-> "absent", query |-> "good",
                  body |-> "none"],
     params |-> Raw("none"), query |-> Raw("none"), body |-> Raw("none"),
     callSchema |-> Undefined, mwRef |-> 0, mwIdx |-> 0,
     middlewareContext |-> EmptyContext,
     args |-> NoArgs, rejected |-> "", thrown |-> NoError,
     response |-> NoResponse,
     log |-> << >>]

\* The builder the closure of invocation iv reads through `this`.
This(iv) == builders[handlers[iv.h].this]

\* this.config of invocation iv.
Config(iv) == configs[This(iv).config]

\* The calls invocation iv has made so far, in order: what was called, and for
\* a validation the slot, the schema and the input.
Logged(iv, call, slot, arg, input) ==
    [iv EXCEPT !.log = Append(@, [call |-> call, slot |-> slot, arg |-> arg,
                                  input |-> input])]

\* A variant of the merge in which the earlier value of a key is kept.
MergeKeepingEarlier(middlewareContext, result) ==
    [k \in ContextKeys |->
       IF middlewareContext[k] # Undefined THEN middlewareContext[k] ELSE result[k]]

\* { ...middlewareContext, ...result }
Merge(middlewareContext, result) ==
    [k \in ContextKeys |->
       IF result[k] # Undefined THEN result[k] ELSE middlewareContext[k]]

\* A variant of the catch block that lets a value that is not an Error
\* propagate: the invocation ends with no response.
CatchRethrowingNonError(iv, error) ==
    IF This(iv).handleServerError # Undefined
    THEN [Logged(iv, "handleServerError", "", error.name, Raw("none")) EXCEPT
            !.pc = "done",
            !.response = HandleServerError(This(iv).handleServerError, error)]
    ELSE IF error.isError
    THEN [iv EXCEPT
            !.pc = "done",
            !.response = Response(400, error.json, error.message, error.errors,
                                  "", NoArgs)]
    ELSE [iv EXCEPT !.pc = "done"]

\* A variant of the catch block whose default wraps an Error's message in a
\* JSON object.
CatchWrappingMessage(iv, error) ==
    IF This(iv).handleServerError # Undefined
    THEN [Logged(iv, "handleServerError", "", error.name, Raw("none")) EXCEPT
            !.pc = "done",
            !.response = HandleServerError(This(iv).handleServerError, error)]
    ELSE IF error.isError
    THEN [iv EXCEPT
            !.pc = "done",
            !.response = Response(400, TRUE, error.message, error.errors,
                                  "", NoArgs)]
    ELSE [iv EXCEPT
            !.pc = "done",
            !.response = Response(500, TRUE, "Internal server error", "none",
                                  "", NoArgs)]

\* The catch block: the response for a caught error.
Catch(iv, error) ==
    IF This(iv).handleServerError # Undefined
    THEN [Logged(iv, "handleServerError", "", error.name, Raw("none")) EXCEPT
            !.pc = "done",
            !.response = HandleServerError(This(iv).handleServerError, error)]
    ELSE IF error.isError
    THEN [iv EXCEPT
            !.pc = "done",
            !.response = Response(400, error.json, error.message, error.errors,
                                  "", NoArgs)]
    ELSE [iv EXCEPT
            !.pc = "done",
            !.response = Response(500, TRUE, "Internal server error", "none",
                                  "", NoArgs)]

\* throw error, inside the try block.
Throw(iv, error) == Catch([iv EXCEPT !.thrown = error], error)

\* The call of the business handler, up to its await.
StageHandler(iv) ==
    [Logged(iv, "handler", "", handlers[iv.h].handler, Raw("none")) EXCEPT
       !.pc = "handler",
       !.args = [params |-> iv.params, query |-> iv.query, body |-> iv.body,
                 data |-> iv.middlewareContext, called |-> TRUE]]

\* A variant of the loop that calls the next step too without awaiting the
\* current one.
LoopNextWithoutAwait(iv) ==
    IF iv.mwIdx < Len(arrays[iv.mwRef])
    THEN [Logged(Logged(iv, "middleware", "", arrays[iv.mwRef][iv.mwIdx],
                        Raw("none")),
                 "middleware", "", arrays[iv.mwRef][iv.mwIdx + 1], Raw("none"))
            EXCEPT !.pc = "middleware"]
    ELSE IF iv.mwIdx = Len(arrays[iv.mwRef])
    THEN [Logged(iv, "middleware", "", arrays[iv.mwRef][iv.mwIdx], Raw("none")) EXCEPT
            !.pc = "middleware"]
    ELSE StageHandler(iv)

\* One turn of the for-of loop over the middlewares, up to its await.
LoopNext(iv) ==
    IF iv.mwIdx <= Len(arrays[iv.mwRef])
    THEN [Logged(iv, "middleware", "", arrays[iv.mwRef][iv.mwIdx], Raw("none")) EXCEPT
            !.pc = "middleware"]
    ELSE StageHandler(iv)

\* A variant in which the middleware context is one object that every
\* invocation accumulates into, not an object made for the invocation.
StageMiddlewareSharedContext(iv) ==
    LoopNext([iv EXCEPT !.middlewareContext = other.middlewareContext,
                        !.mwRef = This(iv).middlewares,
                        !.mwIdx = 1])

\* let middlewareContext = {}; for (const middleware of this.middlewares)
StageMiddleware(iv) ==
    LoopNext([iv EXCEPT !.middlewareContext = EmptyContext,
                        !.mwRef = This(iv).middlewares,
                        !.mwIdx = 1])

\* A variant in which the middleware loop is entered before the body is
\* validated (the body validation is left out).
StageBodyAfterMiddleware(iv) == StageMiddleware(iv)

\* if (this.config.bodySchema) await validate(bodySchema, body)
StageBody(iv) ==
    IF Config(iv).bodySchema # Undefined
    THEN [Logged(iv, "validate", "body", Config(iv).bodySchema, iv.body) EXCEPT
            !.pc = "body", !.callSchema = Config(iv).bodySchema]
    ELSE StageMiddleware(iv)

\* if (this.config.querySchema) await validate(querySchema, query)
StageQuery(iv) ==
    IF Config(iv).querySchema # Undefined
    THEN [Logged(iv, "validate", "query", Config(iv).querySchema, iv.query) EXCEPT
            !.pc = "query", !.callSchema = Config(iv).querySchema]
    ELSE StageBody(iv)

\* if (this.config.paramsSchema) await validate(paramsSchema, params)
StageParams(iv) ==
    IF Config(iv).paramsSchema # Undefined
    THEN [Logged(iv, "validate", "params", Config(iv).paramsSchema, iv.params) EXCEPT
            !.pc = "params", !.callSchema = Config(iv).paramsSchema]
    ELSE StageQuery(iv)

\* A variant of the start that reads the body whatever the method.
StartReadingBody(h, request) ==
    LET iv == [Idle EXCEPT
                 !.pc = "json", !.h = h, !.request = request,
                 !.params = IF request.params = "absent"
                            THEN EmptyObject ELSE Raw(request.params),
                 !.query = Raw(request.query)]
    IN  Logged(iv, "json", "", "", Raw("none"))

\* The compiled handler called with (request, context), up to its first await.
Start(h, request) ==
    LET iv == [Idle EXCEPT
                 !.pc = "start", !.h = h, !.request = request,
                 !.params = IF request.params = "absent"
                            THEN EmptyObject ELSE Raw(request.params),
                 !.query = Raw(request.query)]
    IN  IF request.method # "GET"
        THEN [Logged(iv, "json", "", "", Raw("none")) EXCEPT !.pc = "json"]
        ELSE StageParams([iv EXCEPT !.body = EmptyObject])

------------------------------------------------------------------------------
(* Operations *)

\* A chained call on builder b that returned R.
Chained(op, arg, b, R) ==
    /\ calls < MaxCalls
    /\ inv.pc # "done"
    /\ builders' = R.heap.builders
    /\ configs' = R.heap.configs
    /\ arrays' = R.heap.arrays
    /\ calls' = calls + 1
    /\ last' = [op |-> op, arg |-> arg, on |-> b, ret |-> R.ret,
                before |-> View(b),
                frozen |-> \E h \in DOMAIN handlers : handlers[h].this = b,
                options |-> last.options]
    /\ chain' = Append(chain, Append(chain[b], [op |-> op, arg |-> arg]))
    /\ UNCHANGED <<handlers, inv, other>>

CallParams(b, schema) == Chained("params", schema, b, params(Heap, b, schema))

CallQuery(b, schema) == Chained("query", schema, b, query(Heap, b, schema))

CallBody(b, schema) == Chained("body", schema, b, body(Heap, b, schema))

CallUse(b, middleware) == Chained("use", middleware, b, use(Heap, b, middleware))

CallHandler(b, fn) ==
    /\ calls < MaxCalls
    /\ inv.pc # "done"
    /\ handlers' = Append(handlers, handler(Heap, b, fn))
    /\ calls' = calls + 1
    /\ UNCHANGED <<builders, configs, arrays, last, chain, inv, other>>

\* The host framework calls compiled handler h with a request.
Invoke(h, request) ==
    /\ inv.pc = "idle"
    /\ inv' = Start(h, request)
    /\ UNCHANGED <<builders, configs, arrays, handlers, calls, last, chain, other>>

\* A variant in which a body that is not JSON is taken as {}.
ResumeJsonIgnoringFailure ==
    /\ inv.pc = "json"
    /\ inv' = IF inv.request.body = "malformed"
              THEN StageParams([inv EXCEPT !.body = EmptyObject])
              ELSE StageParams([inv EXCEPT !.body = Raw(inv.request.body)])
    /\ UNCHANGED <<builders, configs, arrays, handlers, calls, last, chain, other>>

\* await request.json() completes.
ResumeJson ==
    /\ inv.pc = "json"
    /\ inv' = IF inv.request.body = "malformed"
              THEN Throw(inv, ErrorOf("SyntaxError", "Unexpected token"))
              ELSE StageParams([inv EXCEPT !.body = Raw(inv.request.body)])
    /\ UNCHANGED <<builders, configs, arrays, handlers, calls, last, chain, other>>

\* A variant in which a rejected params does not end the invocation.
ResumeParamsWithoutThrow ==
    /\ inv.pc = "params"
    /\ LET paramsResult ==
             Validate(This(inv).validationAdapter, inv.callSchema, inv.params)
       IN  inv' = IF ~paramsResult.success
                  THEN StageQuery([inv EXCEPT !.rejected = "params"])
                  ELSE StageQuery([inv EXCEPT !.params = paramsResult.data])
    /\ UNCHANGED <<builders, configs, arrays, handlers, calls, last, chain, other>>

\* await validate(paramsSchema, params) completes.
ResumeParams ==
    /\ inv.pc = "params"
    /\ LET paramsResult ==
             Validate(This(inv).validationAdapter, inv.callSchema, inv.params)
       IN  inv' = IF ~paramsResult.success
                  THEN Throw([inv EXCEPT !.rejected = "params"],
                             JsonError("Invalid params", "result"))
                  ELSE StageQuery([inv EXCEPT !.params = paramsResult.data])
    /\ UNCHANGED <<builders, configs, arrays, handlers, calls, last, chain, other>>

\* await validate(querySchema, query) completes.
ResumeQuery ==
    /\ inv.pc = "query"
    /\ LET queryResult ==
             Validate(This(inv).validationAdapter, inv.callSchema, inv.query)
       IN  inv' = IF ~queryResult.success
                  THEN Throw([inv EXCEPT !.rejected = "query"],
                             JsonError("Invalid query", queryResult.issues))
                  ELSE StageBody([inv EXCEPT !.query = queryResult.data])
    /\ UNCHANGED <<builders, configs, arrays, handlers, calls, last, chain, other>>

\* A variant in which the validated body is not kept (the raw body goes on).
ResumeBodyKeepingRaw ==
    /\ inv.pc = "body"
    /\ LET bodyResult ==
             Validate(This(inv).validationAdapter, inv.callSchema, inv.body)
       IN  inv' = IF ~bodyResult.success
                  THEN Throw([inv EXCEPT !.rejected = "body"],
                             JsonError("Invalid body", bodyResult.issues))
                  ELSE StageMiddleware(inv)
    /\ UNCHANGED <<builders, configs, arrays, handlers, calls, last, chain, other>>

\* await validate(bodySchema, body) completes.
ResumeBody ==
    /\ inv.pc = "body"
    /\ LET bodyResult ==
             Validate(This(inv).validationAdapter, inv.callSchema, inv.body)
       IN  inv' = IF ~bodyResult.success
                  THEN Throw([inv EXCEPT !.rejected = "body"],
                             JsonError("Invalid body", bodyResult.issues))
                  ELSE StageMiddleware([inv EXCEPT !.body = bodyResult.data])
    /\ UNCHANGED <<builders, configs, arrays, handlers, calls, last, chain, other>>

\* A variant in which the loop goes on after a step that threw.
ResumeMiddlewareContinuing ==
    /\ inv.pc = "middleware"
    /\ LET result == MiddlewareResult(arrays[inv.mwRef][inv.mwIdx], inv.request)
       IN  inv' = LoopNext([inv EXCEPT
                              !.middlewareContext = Merge(@, result.fragment),
                              !.mwIdx = @ + 1])
    /\ UNCHANGED <<builders, configs, arrays, handlers, calls, last, chain, other>>

\* await middleware(request) completes.
ResumeMiddleware ==
    /\ inv.pc = "middleware"
    /\ LET result == MiddlewareResult(arrays[inv.mwRef][inv.mwIdx], inv.request)
       IN  inv' = IF result.error.thrown
                  THEN Throw(inv, result.error)
                  ELSE LoopNext([inv EXCEPT
                                   !.middlewareContext = Merge(@, result.fragment),
                                   !.mwIdx = @ + 1])
    /\ UNCHANGED <<builders, configs, arrays, handlers, calls, last, chain, other>>

\* A variant that builds a new response from the status of the one the
\* business handler returned.
ResumeHandlerRebuildingResponse ==
    /\ inv.pc = "handler"
    /\ LET result == HandlerResult(handlers[inv.h].handler, inv.request, inv.args)
       IN  inv' = IF result.error.thrown
                  THEN Throw(inv, result.error)
                  ELSE [inv EXCEPT
                          !.pc = "done",
                          !.response = Response(result.response.status, TRUE,
                                                "ok", "none", "", NoArgs)]
    /\ UNCHANGED <<builders, configs, arrays, handlers, calls, last, chain, other>>

\* await handler(request, context) completes.
ResumeHandler ==
    /\ inv.pc = "handler"
    /\ LET result == HandlerResult(handlers[inv.h].handler, inv.request, inv.args)
       IN  inv' = IF result.error.thrown
                  THEN Throw(inv, result.error)
                  ELSE [inv EXCEPT !.pc = "done", !.response = result.response]
    /\ UNCHANGED <<builders, configs, arrays, handlers, calls, last, chain, other>>

\* The promise of the invocation settles: the host takes the response.  The
\* builder calls of the program are taken before or after this step, not
\* between the response and it.
Return ==
    /\ inv.pc = "done"
    /\ inv' = Idle
    /\ UNCHANGED <<builders, configs, arrays, handlers, calls, last, chain, other>>

\* An invocation suspended at an await is resumed and the one that was running
\* is suspended: the event loop interleaves two invocations at their awaits.
Switch ==
    /\ inv # other
    /\ inv' = other
    /\ other' = inv
    /\ UNCHANGED <<builders, configs, arrays, handlers, calls, last, chain>>

------------------------------------------------------------------------------
(* Specification *)

EmptyHeap == [builders |-> << >>, configs |-> << >>, arrays |-> << >>]

\* The program has called createSafeRoute(options).
Created(options) ==
    LET R == createSafeRoute(EmptyHeap, options)
    IN  /\ builders = R.heap.builders
        /\ configs = R.heap.configs
        /\ arrays = R.heap.arrays
        /\ handlers = << >>
        /\ calls = 0
        /\ last = [op |-> "createSafeRoute", arg |-> Undefined, on |-> R.ret,
                   ret |-> R.ret, before |-> ViewIn(R.heap, R.ret),
                   frozen |-> FALSE, options |-> options]
        /\ chain = << << >> >>
        /\ inv = Idle
        /\ other = Idle

\* createSafeRoute() or createSafeRoute({ handleServerError }).
Init ==
    \E handleServerError \in {Undefined, "custom"} :
       Created([handleServerError |-> handleServerError,
                validationAdapter |-> Undefined])

\* The adapters a program may select besides the default.
Adapters == {"valibot", "yup"}

\* createSafeRoute({ validationAdapter }) or
\* createSafeRoute({ validationAdapter, handleServerError }).
InitWithAdapter ==
    \E handleServerError \in {Undefined, "custom"}, validationAdapter \in Adapters :
       Created([handleServerError |-> handleServerError,
                validationAdapter |-> validationAdapter])

Next ==
    \/ \E b \in DOMAIN builders, schema \in ParamsSchemas : CallParams(b, schema)
    \/ \E b \in DOMAIN builders, schema \in QuerySchemas : CallQuery(b, schema)
    \/ \E b \in DOMAIN builders, schema \in BodySchemas : CallBody(b, schema)
    \/ \E b \in DOMAIN builders, middleware \in Middlewares : CallUse(b, middleware)
    \/ \E b \in DOMAIN builders, fn \in HandlerFns : CallHandler(b, fn)
    \/ \E h \in DOMAIN handlers, request \in Requests : Invoke(h, request)
    \/ ResumeJson
    \/ ResumeParams
    \/ ResumeQuery
    \/ ResumeBody
    \/ ResumeMiddleware
    \/ ResumeHandler
    \/ Return

Spec == Init /\ [][Next]_vars

\* The program selects a validation adapter when it calls createSafeRoute.
SpecWithAdapter == InitWithAdapter /\ [][Next]_vars

\* The requests delivered while two invocations are interleaved.
ConcurrentRequests ==
    {request \in Requests :
        \/ request.method = "GET" /\ request.params = "bad" /\ request.query = "bad"
        \/ request.method = "POST" /\ request.params = "good"
              /\ request.body \in {"good", "malformed"}}

\* The program builds one chain (each call is made on the builder the call
\* before it returned) and the host framework runs up to two invocations of a
\* compiled handler at a time,
\* both of the same handler.
NextConcurrent ==
    \/ \E schema \in ParamsSchemas : CallParams(Len(builders), schema)
    \/ \E schema \in QuerySchemas : CallQuery(Len(builders), schema)
    \/ \E schema \in BodySchemas : CallBody(Len(builders), schema)
    \/ \E middleware \in Middlewares : CallUse(Len(builders), middleware)
    \/ \E fn \in HandlerFns : CallHandler(Len(builders), fn)
    \/ \E h \in DOMAIN handlers, request \in ConcurrentRequests :
          (other.pc # "idle" => other.h = h) /\ Invoke(h, request)
    \/ ResumeJson
    \/ ResumeParams
    \/ ResumeQuery
    \/ ResumeBody
    \/ ResumeMiddleware
    \/ ResumeHandler
    \/ Return
    \/ Switch

SpecConcurrent == Init /\ [][NextConcurrent]_vars

\* The program builds one chain (each call is made on the builder the call
\* before it returned) and the host framework runs one invocation at a time.
NextChain ==
    \/ \E schema \in ParamsSchemas : CallParams(Len(builders), schema)
    \/ \E schema \in QuerySchemas : CallQuery(Len(builders), schema)
    \/ \E schema \in BodySchemas : CallBody(Len(builders), schema)
    \/ \E middleware \in Middlewares : CallUse(Len(builders), middleware)
    \/ \E fn \in HandlerFns : CallHandler(Len(builders), fn)
    \/ \E h \in DOMAIN handlers, request \in Requests : Invoke(h, request)
    \/ ResumeJson
    \/ ResumeParams
    \/ ResumeQuery
    \/ ResumeBody
    \/ ResumeMiddleware
    \/ ResumeHandler
    \/ Return

SpecChain == Init /\ [][NextChain]_vars

------------------------------------------------------------------------------
(* Properties *)

ChainedOps == {"params", "query", "body", "use"}

\* C1: params, query, body and use each return a builder other than their
\* receiver, and the receiver holds the same schemas and the same middleware
\* sequence after the call as before it.
C1_ChainedCallLeavesReceiver ==
    last.op \in ChainedOps =>
       /\ last.ret # last.on
       /\ View(last.on) = last.before

\* C1 witness: a params call whose returned builder holds a schema its
\* receiver does not.
C1_Witness ==
    /\ last.op = "params"
    /\ View(last.ret).paramsSchema # View(last.on).paramsSchema

\* The entries of a log that are calls of the given kind.
CallsOf(log, call) == SelectSeq(log, LAMBDA e : e.call = call)

\* The slots that have a schema in view c, in validation order.
Registered(c) ==
    SelectSeq(<<"params", "query", "body">>,
              LAMBDA slot : CASE slot = "params" -> c.paramsSchema # Undefined
                              [] slot = "query" -> c.querySchema # Undefined
                              [] OTHER -> c.bodySchema # Undefined)

\* The schema view c has for a slot.
SchemaOf(c, slot) ==
    CASE slot = "params" -> c.paramsSchema
      [] slot = "query" -> c.querySchema
      [] OTHER -> c.bodySchema

IsPrefix(s, t) == Len(s) <= Len(t) /\ \A i \in 1..Len(s) : s[i] = t[i]

\* What invocation iv has validated and run agrees with view c: every
\* validation is of a slot registered in c, against c's schema, in c's order;
\* the middleware run are the first of c's sequence; and once the business
\* handler is called, all of c's slots were validated and all of c's
\* middleware run.
Follows(iv, c) ==
    LET validated == CallsOf(iv.log, "validate")
        ran == CallsOf(iv.log, "middleware")
    IN  /\ IsPrefix([i \in 1..Len(validated) |-> validated[i].slot], Registered(c))
        /\ \A i \in 1..Len(validated) :
              validated[i].arg = SchemaOf(c, validated[i].slot)
        /\ IsPrefix([i \in 1..Len(ran) |-> ran[i].arg], c.middlewares)
        /\ iv.args.called =>
              /\ Len(validated) = Len(Registered(c))
              /\ Len(ran) = Len(c.middlewares)

\* C2: a compiled handler is frozen when handler() is called: whatever is
\* called later on its builder or on other builders, the builder it closes
\* over holds what it held then, and every invocation validates those schemas
\* and runs that middleware sequence.
C2_CompiledHandlerFrozen ==
    /\ \A h \in DOMAIN handlers : View(handlers[h].this) = handlers[h].compiled
    /\ inv.pc # "idle" => Follows(inv, handlers[inv.h].compiled)

\* C2 witness: an invocation reached the business handler of a handler whose
\* builder received a chained call after the handler was compiled, and the
\* returned builder holds something else.
C2_Witness ==
    /\ inv.pc = "done"
    /\ inv.args.called
    /\ last.frozen
    /\ last.on = handlers[inv.h].this
    /\ View(last.ret) # handlers[inv.h].compiled
    /\ Len(inv.log) > 1

\* The message of a validation failure of a slot.
InvalidMessage(slot) ==
    CASE slot = "params" -> "Invalid params"
      [] slot = "query" -> "Invalid query"
      [] OTHER -> "Invalid body"

\* Whether invocation iv has called handleServerError.
ErrorHandlerCalled(iv) == Len(CallsOf(iv.log, "handleServerError")) > 0

\* C3: an invocation in which the adapter rejects the value of a slot ends
\* with status 400 and the message "Invalid params", "Invalid query" or
\* "Invalid body" of that slot.
C3_RejectedSlotGives400 ==
    inv.rejected # "" =>
       /\ inv.response.status = 400
       /\ inv.response.message = InvalidMessage(inv.rejected)

\* The raw value a request carries for a slot (a GET has the body {}).
RawInput(request, slot) ==
    CASE slot = "params" ->
           IF request.params = "absent" THEN EmptyObject ELSE Raw(request.params)
      [] slot = "query" -> Raw(request.query)
      [] OTHER ->
           IF request.method = "GET" THEN EmptyObject ELSE Raw(request.body)

\* The registered slots of view c whose value in the request the schema
\* rejects, in the order params, query, body.
Failing(c, request) ==
    SelectSeq(Registered(c),
              LAMBDA slot : ~Validate(c.validationAdapter, SchemaOf(c, slot),
                                      RawInput(request, slot)).success)

\* C4: validation runs in the order params, query, body whatever the order
\* of registration: when several registered slots would fail, the response
\* reports the first of them in that order.
C4_FirstFailingSlotReported ==
    LET c == handlers[inv.h].compiled
    IN  (/\ inv.pc = "done"
         /\ inv.request.body # "malformed"
         /\ Len(Failing(c, inv.request)) > 1)
        => /\ inv.response.status = 400
           /\ inv.response.message = InvalidMessage(Failing(c, inv.request)[1])

\* C5: once the adapter rejects a slot, no later slot is validated, no
\* middleware step is run and the business handler is not called.
C5_RejectionShortCircuits ==
    inv.rejected # "" =>
       LET validated == CallsOf(inv.log, "validate")
       IN  /\ inv.pc = "done"
           /\ validated[Len(validated)].slot = inv.rejected
           /\ Len(CallsOf(inv.log, "middleware")) = 0
           /\ Len(CallsOf(inv.log, "handler")) = 0
           /\ ~inv.args.called

\* C5 witness: params was rejected in a handler that also has a query schema
\* the request's query would fail.
C5_Witness ==
    /\ inv.rejected = "params"
    /\ handlers[inv.h].compiled.querySchema # Undefined
    /\ inv.request.query = "bad"

\* C6: a validation failure becomes its 400 response where it is detected:
\* handleServerError is not called for it, configured or not, and the
\* response is the 400 "Invalid <slot>" response.
C6_RejectionBypassesErrorHandler ==
    inv.rejected # "" =>
       /\ ~ErrorHandlerCalled(inv)
       /\ inv.response.status = 400
       /\ inv.response.json
       /\ inv.response.message = InvalidMessage(inv.rejected)

\* C7: in an invocation whose method is GET the body is never read or
\* parsed, the working body is the empty object, and a registered body schema
\* is validated against the empty object, not skipped.
C7_GetBodyIsEmptyObject ==
    (inv.pc # "idle" /\ inv.request.method = "GET") =>
       LET c == handlers[inv.h].compiled
           validated == CallsOf(inv.log, "validate")
       IN  /\ Len(CallsOf(inv.log, "json")) = 0
           /\ inv.body.raw = "empty"
           /\ \A i \in 1..Len(validated) :
                 validated[i].slot = "body" => validated[i].input = EmptyObject
           /\ (inv.args.called /\ c.bodySchema # Undefined) =>
                 /\ \E i \in 1..Len(validated) : validated[i].slot = "body"
                 /\ inv.args.body.raw = "empty"

\* C7 witness: a GET reached the business handler of a handler with a body
\* schema, which accepted the empty object.
C7_Witness ==
    /\ inv.pc = "done"
    /\ inv.request.method = "GET"
    /\ inv.args.called
    /\ handlers[inv.h].compiled.bodySchema # Undefined

\* C8: for every slot with a registered schema, the business handler receives
\* the data the adapter returned for the slot's raw value, not the raw value.
C8_HandlerReceivesParsedData ==
    inv.args.called =>
       LET c == handlers[inv.h].compiled
           received == [slot \in SlotNames |->
                          CASE slot = "params" -> inv.args.params
                            [] slot = "query" -> inv.args.query
                            [] OTHER -> inv.args.body]
       IN  \A slot \in SlotNames :
              SchemaOf(c, slot) # Undefined =>
                 received[slot] =
                    Validate(c.validationAdapter, SchemaOf(c, slot),
                             RawInput(inv.request, slot)).data

\* C8 witness: the business handler was called with a parsed body and a
\* parsed params.
C8_Witness ==
    /\ inv.args.called
    /\ handlers[inv.h].compiled.bodySchema # Undefined
    /\ handlers[inv.h].compiled.paramsSchema # Undefined
    /\ inv.request.method = "POST"

\* The value the last of the steps that set key k gave it; Undefined if none
\* set it.
LastWrite(steps, request, k) ==
    LET setting == {i \in 1..Len(steps) :
                      MiddlewareResult(steps[i], request).fragment[k] # Undefined}
    IN  IF setting = {}
        THEN Undefined
        ELSE MiddlewareResult(
                steps[CHOOSE i \in setting : \A j \in setting : j <= i],
                request).fragment[k]

\* C9: when all registered middleware steps succeed, the data passed to the
\* business handler is the shallow merge of their fragments in registration
\* order from the empty object, a later step's value replacing an earlier
\* step's value of the same key.
C9_DataIsMergeInOrder ==
    inv.args.called =>
       \A k \in ContextKeys :
          inv.args.data[k] =
             LastWrite(handlers[inv.h].compiled.middlewares, inv.request, k)

\* C9 witness: the business handler was called after two steps that set the
\* same key to different values.
C9_Witness ==
    /\ inv.args.called
    /\ LET steps == handlers[inv.h].compiled.middlewares
       IN  /\ Len(steps) = 2
           /\ \E k \in ContextKeys :
                 /\ MiddlewareResult(steps[1], inv.request).fragment[k] # Undefined
                 /\ MiddlewareResult(steps[2], inv.request).fragment[k] # Undefined
                 /\ MiddlewareResult(steps[1], inv.request).fragment[k] #
                       MiddlewareResult(steps[2], inv.request).fragment[k]

\* C10: with a handleServerError given at construction, an error raised by
\* body parsing, a middleware step or the business handler gives as response
\* what handleServerError returns for that error, and not the default mapping,
\* whatever chain of calls the handler's builder came from.
C10_ErrorHandlerDecidesResponse ==
    (/\ inv.pc = "done"
     /\ inv.thrown.thrown
     /\ inv.rejected = ""
     /\ builders[1].handleServerError # Undefined)
    => /\ ErrorHandlerCalled(inv)
       /\ inv.response =
             HandleServerError(builders[1].handleServerError, inv.thrown)

\* C10 witness: a middleware step threw in a handler compiled from a derived
\* builder, with a handleServerError given at construction.
C10_Witness ==
    /\ inv.pc = "done"
    /\ inv.thrown.thrown
    /\ inv.rejected = ""
    /\ builders[1].handleServerError # Undefined
    /\ handlers[inv.h].this # 1
    /\ Len(CallsOf(inv.log, "middleware")) > 0
    /\ Len(CallsOf(inv.log, "handler")) = 0

\* Invocation iv ended in the catch block with an error that body parsing, a
\* middleware or the handler threw, and no handleServerError is configured.
DefaultCaught(iv) ==
    /\ iv.pc = "done"
    /\ iv.thrown.thrown
    /\ iv.rejected = ""
    /\ This(iv).handleServerError = Undefined

\* The default response for a value that is not an Error.
InternalServerError ==
    Response(500, TRUE, "Internal server error", "none", "", NoArgs)

ErrorMessages == {"Test error", "Unexpected token", "Unauthorized"}

\* C12: with no handleServerError the response to a thrown error is generic:
\* an invocation that differs only in the message of the error thrown would
\* have been given the same response, so the message is not in the response.
C12_DefaultResponseIsGeneric ==
    DefaultCaught(inv) =>
        /\ \A message \in ErrorMessages :
              Catch(inv, [inv.thrown EXCEPT !.message = message]).response
                  = inv.response
        /\ inv.response.message # inv.thrown.message

\* The awaits an invocation in flight can be suspended at.
Awaits == {"json", "params", "query", "body", "middleware", "handler"}

Selected ==
    IF last.options.validationAdapter = Undefined
    THEN "zod" ELSE last.options.validationAdapter

\* C14: the adapter given to createSafeRoute is the one every builder of the
\* chain carries and the one through which a compiled handler performs every
\* slot validation; with none given it is the default adapter.
C14_SelectedAdapterValidates ==
    /\ \A b \in DOMAIN builders :
          chain[b] # << >> => View(b).validationAdapter = Selected
    /\ inv.pc \in {"params", "query", "body"} =>
          This(inv).validationAdapter = Selected

\* The argument of the most recent call of op in the chain c, Undefined if op
\* was never called.
LastSet(c, op) ==
    LET at == {i \in DOMAIN c : c[i].op = op}
    IN  IF at = {} THEN Undefined
        ELSE c[CHOOSE i \in at : \A j \in at : j <= i].arg

\* C15: after any chain of calls, each slot holds the schema passed to the
\* most recent call for that slot and nothing if there was no such call; a
\* compiled handler validates a slot against that schema only, does not
\* validate a slot never set, and when it reaches the business handler it has
\* validated exactly the slots that were set.
C15_LastSchemaWins ==
    /\ \A b \in DOMAIN builders, slot \in SlotNames :
          SchemaOf(configs[builders[b].config], slot) = LastSet(chain[b], slot)
    /\ inv.pc # "idle" =>
          LET c == chain[handlers[inv.h].this]
              validated == CallsOf(inv.log, "validate")
          IN  /\ \A i \in DOMAIN validated :
                    validated[i].arg = LastSet(c, validated[i].slot)
              /\ inv.args.called =>
                    {validated[i].slot : i \in DOMAIN validated}
                        = {slot \in SlotNames : LastSet(c, slot) # Undefined}

\* body was called twice with different schemas in the chain of the handler
\* invoked, and the handler has validated the body.
C15_Witness ==
    /\ inv.pc # "idle"
    /\ LET c == chain[handlers[inv.h].this]
       IN  \E i, j \in DOMAIN c :
              /\ i < j
              /\ c[i].op = "body" /\ c[j].op = "body"
              /\ c[i].arg # c[j].arg
    /\ \E i \in DOMAIN inv.log :
          inv.log[i].call = "validate" /\ inv.log[i].slot = "body"

\* C16: two invocations of the same compiled handler with identical requests
\* end with identical responses, whether the second runs after the first has
\* ended or while it is suspended, and whatever was called on builders in
\* between.
C16_SameRequestSameResponse ==
    (/\ inv.pc = "done"
     /\ other.pc = "done"
     /\ inv.h = other.h
     /\ inv.request = other.request)
    => inv.response = other.response

\* Two invocations of one handler with the same request have both ended, and
\* both had run a middleware and called the business handler.
C16_Witness ==
    /\ inv.pc = "done"
    /\ other.pc = "done"
    /\ inv.h = other.h
    /\ inv.request = other.request
    /\ inv.args.called
    /\ other.args.called
    /\ Len(CallsOf(inv.log, "middleware")) > 0

\* The response of the catch block of a handler compiled from view c.
ErrorResponse(c, error) ==
    IF c.handleServerError # Undefined
    THEN HandleServerError(c.handleServerError, error)
    ELSE IF error.isError
    THEN Response(400, error.json, error.message, error.errors, "", NoArgs)
    ELSE InternalServerError

\* What a handler compiled from view c passes to the business handler for a
\* request, when nothing is rejected and no middleware throws.
ArgsOf(c, request) ==
    LET value(slot) ==
            IF SchemaOf(c, slot) = Undefined
            THEN RawInput(request, slot)
            ELSE Validate(c.validationAdapter, SchemaOf(c, slot),
                          RawInput(request, slot)).data
    IN  [params |-> value("params"), query |-> value("query"),
         body |-> value("body"),
         data |-> [k \in ContextKeys |-> LastWrite(c.middlewares, request, k)],
         called |-> TRUE]

\* The response of a handler compiled from view c and fn to a request, when
\* the invocation is the only one.
ResponseOf(c, fn, request) ==
    LET failing == Failing(c, request)
        throwing == {i \in DOMAIN c.middlewares :
                       MiddlewareResult(c.middlewares[i], request).error.thrown}
        result == HandlerResult(fn, request, ArgsOf(c, request))
    IN  IF request.method # "GET" /\ request.body = "malformed"
        THEN ErrorResponse(c, ErrorOf("SyntaxError", "Unexpected token"))
        ELSE IF failing # << >>
        THEN ErrorResponse(c,
                JsonError(InvalidMessage(failing[1]),
                          IF failing[1] = "params" THEN "result"
                          ELSE Validate(c.validationAdapter,
                                        SchemaOf(c, failing[1]),
                                        RawInput(request, failing[1])).issues))
        ELSE IF throwing # {}
        THEN ErrorResponse(c,
                MiddlewareResult(
                   c.middlewares[CHOOSE i \in throwing : \A j \in throwing : i <= j],
                   request).error)
        ELSE IF result.error.thrown
        THEN ErrorResponse(c, result.error)
        ELSE result.response

\* Invocation iv is as it would be if it were the only one: it validates and
\* runs what its handler was compiled with, its middleware context is the
\* merge of the steps it has itself completed, and the arguments of the
\* business handler and the response are those its request alone determines.
Alone(iv) ==
    iv.pc # "idle" =>
       LET c == handlers[iv.h].compiled
           completed == IF iv.mwIdx = 0 THEN 0 ELSE iv.mwIdx - 1
       IN  /\ Follows(iv, c)
           /\ \A k \in ContextKeys :
                 iv.middlewareContext[k] =
                    LastWrite(SubSeq(c.middlewares, 1, completed), iv.request, k)
           /\ iv.args.called => iv.args = ArgsOf(c, iv.request)
           /\ iv.pc = "done" =>
                 iv.response = ResponseOf(c, handlers[iv.h].handler, iv.request)

\* C17: two invocations of one compiled handler interleaved at their awaits
\* do not interfere: each one's values, middleware context and response are
\* what it would produce alone, and what the handler captured is not written.
C17_InterleavedInvocationsAreAlone ==
    /\ Alone(inv)
    /\ Alone(other)
    /\ \A h \in DOMAIN handlers : View(handlers[h].this) = handlers[h].compiled

\* Two invocations of one handler with different requests are both suspended
\* in the middleware loop, one of them a step ahead of the other.
C17_Witness ==
    /\ inv.pc = "middleware"
    /\ other.pc = "middleware"
    /\ inv.h = other.h
    /\ inv.request # other.request
    /\ inv.mwIdx > other.mwIdx
    /\ inv.middlewareContext # other.middlewareContext

\* C18: for each of params, query and body, the `errors` of the response to a
\* rejected value is the issue list of the adapter's result (with the default
\* catch block, which returns the validation failure's message as the body).
C18_ErrorsAreIssueList ==
    (/\ inv.rejected # ""
     /\ This(inv).handleServerError = Undefined)
    => LET c == handlers[inv.h].compiled
       IN  inv.response.errors =
              Validate(c.validationAdapter, SchemaOf(c, inv.rejected),
                       RawInput(inv.request, inv.rejected)).issues

\* C19: a chained call changes only what it sets: the builder returned by
\* params, query or body holds what the receiver held with that one slot
\* replaced by the argument, and the builder returned by use(m) holds what
\* the receiver held with m appended at the end of the middleware sequence.
C19_ChainedCallSetsOnlyItsOwn ==
    last.op \in ChainedOps =>
       View(last.ret) =
          CASE last.op = "params" -> [last.before EXCEPT !.paramsSchema = last.arg]
            [] last.op = "query" -> [last.before EXCEPT !.querySchema = last.arg]
            [] last.op = "body" -> [last.before EXCEPT !.bodySchema = last.arg]
            [] OTHER -> [last.before EXCEPT !.middlewares = Append(@, last.arg)]

\* query was called on a builder that held a params schema and a middleware.
C19_Witness ==
    /\ last.op = "query"
    /\ last.before.paramsSchema # Undefined
    /\ last.before.middlewares # << >>
    /\ View(last.ret).querySchema # last.before.querySchema

\* C20: the middleware steps of an invocation are called one at a time in
\* registration order, each at most once: the steps called so far are the
\* first of the registered sequence, at most one of them has not completed,
\* the context holds the merged fragments of all that completed (a step is
\* called only after the one before it was merged), and the business handler
\* is called only after all of them completed.
C20_MiddlewareOneAtATimeInOrder ==
    inv.pc # "idle" =>
       LET steps == handlers[inv.h].compiled.middlewares
           called == CallsOf(inv.log, "middleware")
           completed == IF inv.mwIdx = 0 THEN 0 ELSE inv.mwIdx - 1
       IN  /\ Len(called) <= Len(steps)
           /\ \A i \in DOMAIN called : called[i].arg = steps[i]
           /\ Len(called) \in {completed, completed + 1}
           /\ inv.pc = "middleware" => Len(called) = completed + 1
           /\ \A k \in ContextKeys :
                 inv.middlewareContext[k] =
                    LastWrite(SubSeq(steps, 1, completed), inv.request, k)
           /\ inv.args.called =>
                 Len(called) = Len(steps) /\ completed = Len(steps)

\* The second step is suspended at its await, after the first step's fragment
\* was merged.
C20_Witness ==
    /\ inv.pc = "middleware"
    /\ inv.mwIdx = 2
    /\ Len(CallsOf(inv.log, "middleware")) = 2
    /\ inv.middlewareContext # EmptyContext

\* The place of a call in the pipeline.
Rank(call) ==
    CASE call = "json" -> 0
      [] call = "validate" -> 1
      [] call = "middleware" -> 2
      [] call = "handler" -> 3
      [] OTHER -> 4

\* C21: in every invocation, whatever the order of use and params/query/body
\* in the chain, the calls are made in the order validations, middleware
\* steps, business handler; a middleware step is called only once every
\* registered slot has been validated and none rejected, and the business
\* handler only once every middleware step has completed.
C21_ValidationPrecedesMiddleware ==
    inv.pc # "idle" =>
       LET c == handlers[inv.h].compiled
           validated == CallsOf(inv.log, "validate")
           called == CallsOf(inv.log, "middleware")
       IN  /\ \A i \in 1..(Len(inv.log) - 1) :
                 Rank(inv.log[i].call) <= Rank(inv.log[i + 1].call)
           /\ Len(called) > 0 =>
                 /\ Len(validated) = Len(Registered(c))
                 /\ inv.rejected = ""
           /\ Len(CallsOf(inv.log, "handler")) > 0 =>
                 /\ Len(called) = Len(c.middlewares)
                 /\ inv.mwIdx = Len(c.middlewares) + 1

\* The handler invoked was compiled from a chain in which use comes before
\* params; the invocation validated params and then called the middleware.
C21_Witness ==
    /\ inv.pc # "idle"
    /\ LET ch == chain[handlers[inv.h].this]
       IN  \E i, j \in DOMAIN ch :
              i < j /\ ch[i].op = "use" /\ ch[j].op = "params"
    /\ Len(CallsOf(inv.log, "validate")) > 0
    /\ Len(CallsOf(inv.log, "middleware")) > 0

\* The middleware steps of invocation iv that have completed by throwing.
Thrown(iv) ==
    LET called == CallsOf(iv.log, "middleware")
    IN  {i \in DOMAIN called :
           /\ MiddlewareResult(called[i].arg, iv.request).error.thrown
           /\ iv.pc = "middleware" => i < Len(called)}

\* C22: when a middleware step throws, the invocation ends: no later step is
\* called, the business handler is not called, and the response is the one
\* the catch block gives for the error thrown (what handleServerError returns
\* if one is configured, the default mapping if not).
C22_FailingMiddlewareAborts ==
    inv.pc # "idle" =>
       \A i \in Thrown(inv) :
          LET called == CallsOf(inv.log, "middleware")
          IN  /\ inv.pc = "done"
              /\ i = Len(called)
              /\ Len(CallsOf(inv.log, "handler")) = 0
              /\ ~inv.args.called
              /\ inv.response =
                    ErrorResponse(handlers[inv.h].compiled,
                                  MiddlewareResult(called[i].arg, inv.request).error)

\* A step threw while another step was registered after it.
C22_Witness ==
    /\ inv.pc = "done"
    /\ Thrown(inv) # {}
    /\ Len(handlers[inv.h].compiled.middlewares)
          > Len(CallsOf(inv.log, "middleware"))

\* C23: in an invocation with a method other than GET the first call is the
\* read of the body as JSON, before any validation and whether or not a body
\* schema is registered; if the body is not JSON the invocation ends in the
\* catch block with the parse error: nothing is validated, so no slot is
\* reported invalid, and no middleware and no business handler is called.
C23_BodyParsedBeforeValidation ==
    (inv.pc # "idle" /\ inv.request.method # "GET") =>
       /\ inv.log[1].call = "json"
       /\ (inv.request.body = "malformed" /\ inv.pc # "json") =>
             /\ inv.pc = "done"
             /\ Len(CallsOf(inv.log, "validate")) = 0
             /\ Len(CallsOf(inv.log, "middleware")) = 0
             /\ Len(CallsOf(inv.log, "handler")) = 0
             /\ ~inv.args.called
             /\ inv.rejected = ""
             /\ inv.response.message \notin {InvalidMessage(slot) : slot \in SlotNames}
             /\ inv.response =
                   ErrorResponse(handlers[inv.h].compiled,
                                 ErrorOf("SyntaxError", "Unexpected token"))

\* A POST whose body is not JSON and whose params the schema would reject
\* ended, in a handler with a params schema and no body schema.
C23_Witness ==
    /\ inv.pc = "done"
    /\ inv.request.method = "POST"
    /\ inv.request.body = "malformed"
    /\ inv.request.params = "bad"
    /\ handlers[inv.h].compiled.paramsSchema # Undefined
    /\ handlers[inv.h].compiled.bodySchema = Undefined

\* For a handler compiled from view c: the body of the request is read, no
\* registered slot is rejected and no middleware step throws.
Succeeds(c, request) ==
    /\ ~(request.method # "GET" /\ request.body = "malformed")
    /\ Failing(c, request) = << >>
    /\ \A i \in DOMAIN c.middlewares :
          ~MiddlewareResult(c.middlewares[i], request).error.thrown

\* C24 as stated: the business handler is called at most once in an
\* invocation, and exactly once if and only if the body was read, every
\* registered slot validated and every middleware step succeeded; in that
\* case the response of the invocation is the business handler's result.
C24_ResponseIsHandlerResult ==
    inv.pc # "idle" =>
       LET c == handlers[inv.h].compiled
           n == Len(CallsOf(inv.log, "handler"))
       IN  /\ n <= 1
           /\ n = 1 => Succeeds(c, inv.request)
           /\ inv.pc = "done" =>
                 /\ n = 1 <=> Succeeds(c, inv.request)
                 /\ n = 1 =>
                       inv.response =
                          HandlerResult(handlers[inv.h].handler, inv.request,
                                        inv.args).response

\* C24: the business handler is called at most once in an invocation, and
\* exactly once if and only if the body was read, every registered slot
\* validated and every middleware step succeeded; in that case the response
\* of the invocation is the response the business handler returned, as it
\* is, when it returns one, and the response of the catch block for the
\* error when it throws.
C24_HandlerCalledOnceWhenAllSucceed ==
    inv.pc # "idle" =>
       LET c == handlers[inv.h].compiled
           n == Len(CallsOf(inv.log, "handler"))
           result == HandlerResult(handlers[inv.h].handler, inv.request, inv.args)
       IN  /\ n <= 1
           /\ n = 1 => Succeeds(c, inv.request)
           /\ inv.pc = "done" =>
                 /\ n = 1 <=> Succeeds(c, inv.request)
                 /\ n = 1 =>
                       inv.response =
                          IF result.error.thrown
                          THEN ErrorResponse(c, result.error)
                          ELSE result.response

\* The business handler was called after a validation and a middleware step
\* and the invocation ended with the response it returned.
C24_Witness ==
    /\ inv.pc = "done"
    /\ Len(CallsOf(inv.log, "handler")) = 1
    /\ Len(CallsOf(inv.log, "validate")) > 0
    /\ Len(CallsOf(inv.log, "middleware")) > 0
    /\ ~inv.thrown.thrown
    /\ inv.response.status = 200
    /\ inv.response.echo = inv.args

\* One chained call made on the builder R.ret of heap R.heap.
ApplyCall(R, call) ==
    CASE call.op = "params" -> params(R.heap, R.ret, call.arg)
      [] call.op = "query" -> query(R.heap, R.ret, call.arg)
      [] call.op = "body" -> body(R.heap, R.ret, call.arg)
      [] OTHER -> use(R.heap, R.ret, call.arg)

RECURSIVE ApplyChain(_, _)
\* The chain of calls ch made one after the other, starting on R.ret.
ApplyChain(R, ch) ==
    IF ch = << >> THEN R ELSE ApplyChain(ApplyCall(R, Head(ch)), Tail(ch))

\* What the builder holds that the chain ch gives when made on the builder
\* createSafeRoute returned.
ViewOfChain(ch) ==
    LET R == ApplyChain(createSafeRoute(EmptyHeap, last.options), ch)
    IN  ViewIn(R.heap, R.ret)

\* The chains that differ from ch in the order of two adjacent calls, one of
\* them use and the other a slot, or the two of different slots.
Reordered(ch) ==
    {[j \in DOMAIN ch |-> IF j = i THEN ch[i + 1]
                          ELSE IF j = i + 1 THEN ch[i] ELSE ch[j]] :
        i \in {i \in 1..(Len(ch) - 1) : ch[i].op # ch[i + 1].op}}

\* C25: the order in which a chain registers a middleware and a schema, or
\* the schemas of two different slots, does not matter: the chain with two
\* such adjacent calls exchanged gives a builder that holds the same, and an
\* invocation makes the validation, middleware and business-handler calls
\* and gives the response that the handler of the exchanged chain gives for
\* the request.
C25_RegistrationOrderIrrelevant ==
    /\ \A b \in DOMAIN builders :
          \A ch \in Reordered(chain[b]) : ViewOfChain(ch) = View(b)
    /\ inv.pc # "idle" =>
          \A ch \in Reordered(chain[handlers[inv.h].this]) :
             /\ Follows(inv, ViewOfChain(ch))
             /\ inv.pc = "done" =>
                   inv.response =
                      ResponseOf(ViewOfChain(ch), handlers[inv.h].handler,
                                 inv.request)

\* An invocation of a handler whose chain is use then params ended after it
\* validated params, ran the middleware and called the business handler.
C25_Witness ==
    /\ inv.pc = "done"
    /\ LET ch == chain[handlers[inv.h].this]
       IN  /\ Len(ch) = 2
           /\ ch[1].op = "use"
           /\ ch[2].op = "params"
    /\ Len(CallsOf(inv.log, "validate")) > 0
    /\ Len(CallsOf(inv.log, "middleware")) > 0
    /\ inv.args.called

====
